---- MODULE Spec2Model ----
(***************************************************************************)
(* SunFlux: the refresh-and-merge caches of the space-weather feeds.       *)
(*                                                                         *)
(* Every feed keeps one cache file.  A request stats the file, decides     *)
(* whether it is stale, fetches over HTTP when it is, persists the result  *)
(* and hands data to its caller.  Feeds share nothing but the clock, so a  *)
(* behaviour follows the requests made on one feed's cache file (the feed  *)
(* is chosen in Init).                                                     *)
(*                                                                         *)
(* A record of a time series is <<timestamp, value>>.  A Python value kept *)
(* in memory or pickled into a file is [tag, items]: None, a list of       *)
(* records, a string (an alert message) or the bytes of an image.          *)
(***************************************************************************)
EXTENDS Integers, Sequences, FiniteSets, TLC

VARIABLES
  feed,    \* the feed whose cache file this behaviour follows
  mount,   \* access-time policy of the file system holding the cache
  now,     \* time.time()
  file,    \* the cache file: [exists, data, mtime, atime]
  last,    \* the invocation made at the present instant: what it found and did
  mX,      \* merge study: the cached sequence handed to SSN.read_url
  mY,      \* merge study: the records of the fetched batch
  mOut,    \* merge study: result of the first refresh
  mY2,     \* merge study: the batch as the second refresh fetched it
  mOut2,   \* merge study: result of the second refresh
  mStep,   \* merge study: "in", "merged", "replayed", "permuted"
  mHeld,   \* merge study: the list object handed to read_url, after the call
  procs,   \* race study: the invocations running on the cache file, step by step
  disk0,   \* race study: the cache file before the invocations started
  qIn,     \* parse study: the rows, the fields or the window handed in
  qOut,    \* parse study: what the function gave for them
  qStep    \* parse study: "in", then the function that ran

vars ==
  <<feed, mount, now, file, last, mX, mY, mOut, mY2, mOut2, mStep, mHeld,
    procs, disk0,
    qIn, qOut, qStep>>

-----------------------------------------------------------------------------
\* Bounds of the model

\* the clock takes the instants k * ttl and k * ttl + 1, k \in 0..MaxPeriods
MaxPeriods == 1
\* records in one fetched payload (requests)
MaxPayload == 2
\* records in one fetched batch (merge study)
MaxBatch == 2

-----------------------------------------------------------------------------
\* Program constants

SSN_CACHE_TIME == 43200
KPI_CACHE_TIME == 21600
ALERT_CACHE_TIME == 4 * 3600
IMAGE_CACHE_TIME == 1900
FLUX_CACHE_TIME == 3600
\* sorted(_data.values())[-90:]
RETENTION == 90

Feeds == {"ssn", "kpi", "alerts", "image", "flux"}
TimeSeriesFeeds == {"ssn", "kpi"}

TTL(fd) ==
  CASE fd = "ssn" -> SSN_CACHE_TIME
    [] fd = "kpi" -> KPI_CACHE_TIME
    [] fd = "alerts" -> ALERT_CACHE_TIME
    [] fd = "image" -> IMAGE_CACHE_TIME
    [] OTHER -> FLUX_CACHE_TIME

Instants(ttl) == {k * ttl + j : k \in 0..MaxPeriods, j \in {0, 1}}

-----------------------------------------------------------------------------
\* Python values

None == [tag |-> "None", items |-> <<>>]
List(s) == [tag |-> "list", items |-> s]
Str(m) == [tag |-> "str", items |-> <<m>>]
Bytes(b) == [tag |-> "bytes", items |-> b]

\* contents of a file that pickle.load cannot read: no bytes at all, or the
\* first bytes of a pickle that was never finished
ZeroBytes == [tag |-> "empty", items |-> <<>>]
CutShort == [tag |-> "truncated", items |-> <<>>]

\* faulty variant of Truthy: only None is falsy
Truthy_list(v) == v.tag # "None"

\* bool(v): None and the empty list are falsy
Truthy(v) == v.tag # "None" /\ ~(v.tag = "list" /\ v.items = <<>>)

SeqsUpTo(S, n) == UNION {[1..k -> S] : k \in 0..n}

\* timestamps of a sequence of records
Times(s) == {s[i][1] : i \in DOMAIN s}

\* tuple comparison of two records, as Python compares tuples
TupleLess(a, b) == a[1] < b[1] \/ (a[1] = b[1] /\ a[2] < b[2])

\* faulty variant of sorted: the list is left in the order it has
sorted_asis(s) == s

\* sorted(list)
sorted(s) == SortSeq(s, TupleLess)

\* faulty variant of Tail_n: the slice is one record short, list[-(n-1):]
Tail_short(s, n) ==
  IF Len(s) <= n - 1 THEN s ELSE SubSeq(s, Len(s) - n + 2, Len(s))

\* list[-n:]
Tail_n(s, n) == IF Len(s) <= n THEN s ELSE SubSeq(s, Len(s) - n + 1, Len(s))

-----------------------------------------------------------------------------
\* The file system

NoFile == [exists |-> FALSE, data |-> None, mtime |-> 0, atime |-> 0]

\* open(path, 'rb') and read: the access time moves as the mount policy says
\* (strictatime: always; relatime: when it is not later than the last
\* modification or is older than a day; noatime: never)
AfterRead(f, t) ==
  IF /\ f.exists
     /\ \/ mount = "strictatime"
        \/ mount = "relatime" /\ (f.atime <= f.mtime \/ t - f.atime > 86400)
  THEN [f EXCEPT !.atime = t]
  ELSE f

\* faulty variant of AfterWrite: a file that exists keeps what it holds
AfterWrite_kept(f, d, t) ==
  [exists |-> TRUE, data |-> IF f.exists THEN f.data ELSE d, mtime |-> t,
   atime |-> IF f.exists THEN f.atime ELSE t]

\* open(path, 'wb'); pickle.dump(data): create or truncate, full overwrite
AfterWrite(f, d, t) ==
  [exists |-> TRUE, data |-> d, mtime |-> t,
   atime |-> IF f.exists THEN f.atime ELSE t]

-----------------------------------------------------------------------------
\* HTTP responses: urlopen raises URLError (network error, HTTP error
\* status), decoding the body may fail, or a response comes back with a
\* status and a body of records

PayloadRecords == {<<15, 4>>, <<15, 5>>, <<45, 5>>}
Payloads == SeqsUpTo(PayloadRecords, MaxPayload)

Response(e, s, b) == [error |-> e, status |-> s, body |-> b]
NoResponse == Response("none", 0, <<>>)
Responses ==
  {Response("URLError", 0, <<>>), Response("DecodeError", 200, <<>>),
   Response("none", 204, <<>>)}
  \cup {Response("none", 200, p) : p \in Payloads}

FetchFailed(r) == r.error \in {"URLError", "DecodeError"}

-----------------------------------------------------------------------------
\* ssngraph.py: the sunspot-number feed

Raised == [raised |-> TRUE, value |-> None]
Returned(v) == [raised |-> FALSE, value |-> v]

\* faulty variant of DictValues: a key keeps the value inserted first
DictValues_first(data) ==
  LET idx == [i \in 1..Len(data) |-> i]
      IsFirst(i) == \A j \in 1..(i - 1) : data[j][1] # data[i][1]
      firsts == SelectSeq(idx, IsFirst)
  IN [n \in DOMAIN firsts |-> data[firsts[n]]]

\* {v[0]: v for v in data}.values(): one value per key; the keys stand in
\* the order of their first insertion, each holding the value inserted last
DictValues(data) ==
  LET idx == [i \in 1..Len(data) |-> i]
      IsFirst(i) == \A j \in 1..(i - 1) : data[j][1] # data[i][1]
      firsts == SelectSeq(idx, IsFirst)
      LastIdx(k) == LET at == {i \in DOMAIN data : data[i][1] = k}
                    IN CHOOSE i \in at : \A j \in at : j <= i
  IN [n \in DOMAIN firsts |-> data[LastIdx(data[firsts[n]][1])]]

\* faulty variant of merge: the rows are appended and never de-duplicated
merge_append(cached, incoming) ==
  Tail_n(sorted(cached \o incoming), RETENTION)

\* faulty variant of merge: the list is cut to its last 90 before it is sorted
merge_cut_first(cached, incoming) ==
  sorted(Tail_n(DictValues(cached \o incoming), RETENTION))

\* SSN.read_url, lines 49-54: append the incoming rows to the cached list,
\* de-duplicate by the first field, sort, keep the last 90
merge(cached, incoming) ==
  Tail_n(sorted(DictValues(cached \o incoming)), RETENTION)

\* SSN.read_url
read_url(resp, current_data) ==
  IF resp.error # "none" THEN Raised
  ELSE IF resp.status # 200 THEN Returned(current_data)
  ELSE Returned(List(merge(current_data.items, resp.body)))

\* SSN.read_url, lines 49-51: data = current_data names the caller's list, and
\* data.append puts every fetched row into it; what that list holds when
\* read_url is over
read_url_held(resp, current_data) ==
  IF resp.error # "none" THEN current_data
  ELSE IF resp.status # 200 THEN current_data
  ELSE List(current_data.items \o resp.body)

\* open(cache_file, 'rb'); pickle.load(fd): the exception it ends with, or "ok"
pickle_load(f) ==
  IF ~f.exists THEN "FileNotFoundError"
  ELSE IF f.data = ZeroBytes THEN "EOFError"
  ELSE IF f.data = CutShort THEN "UnpicklingError"
  ELSE "ok"

\* faulty variant of Caught: only the missing file is caught
Caught_missing == {"FileNotFoundError"}

\* except (FileNotFoundError, EOFError): the same clause in SSN.read_cache,
\* KPIForecast.readcache and readcache
Caught == {"FileNotFoundError", "EOFError"}

\* the load routine lets the exception of pickle.load through
load_raises(f) == pickle_load(f) \notin Caught \cup {"ok"}

\* faulty variant of read_cache: the file is not read
read_cache_blank(f) == List(<<>>)

\* SSN.read_cache (its value when it returns)
read_cache(f) == IF pickle_load(f) = "ok" THEN f.data ELSE List(<<>>)

\* faulty variant of is_expired: the distance between the two times counts,
\* whichever is the later
is_expired_abs(f, cache_time, t) ==
  IF ~f.exists THEN TRUE
  ELSE IF t - f.mtime > cache_time \/ f.mtime - t > cache_time THEN TRUE
  ELSE FALSE

\* SSN.is_expired
is_expired(f, cache_time, t) ==
  IF ~f.exists THEN TRUE
  ELSE IF t - f.mtime > cache_time THEN TRUE
  ELSE FALSE

NoRequest ==
  [kind |-> "none", stale |-> FALSE, resp |-> NoResponse, raised |-> FALSE,
   returned |-> None, before |-> NoFile, wrote |-> FALSE]

\* the record of one request: whether it found the cache stale, the response
\* its fetch got, whether it raised, what it returned, the cache file before
\* it, whether it wrote the cache file
Request(stale, resp, raised, returned, wrote) ==
  [kind |-> "request", stale |-> stale, resp |-> resp, raised |-> raised,
   returned |-> returned, before |-> file, wrote |-> wrote]

mvars == <<mX, mY, mOut, mY2, mOut2, mStep, mHeld>>
rvars == <<procs, disk0>>
qvars == <<qIn, qOut, qStep>>

\* SSN.__init__
SSNRequest ==
  /\ feed = "ssn"
  /\ LET data == read_cache(file)
         f1 == AfterRead(file, now)
     IN IF ~is_expired(file, SSN_CACHE_TIME, now)
        THEN /\ file' = f1
             /\ last' = Request(FALSE, NoResponse, FALSE, data, FALSE)
        ELSE \E resp \in Responses :
               LET r == read_url(resp, data)
               IN IF r.raised
                  THEN /\ file' = f1
                       /\ last' = Request(TRUE, resp, TRUE, None, FALSE)
                  ELSE /\ file' = AfterWrite(f1, r.value, now)
                       /\ last' = Request(TRUE, resp, FALSE, r.value, TRUE)
  /\ UNCHANGED <<feed, mount, now, mvars, rvars, qvars>>

-----------------------------------------------------------------------------
\* kpiforecast.py: the K-index forecast feed

\* KPIForecast.download: the value left in self.data, or the exception
download(resp) ==
  IF resp.error # "none" THEN Raised
  ELSE IF resp.status # 200 THEN Raised  \* json.loads of an empty body
  ELSE Returned(List(sorted(resp.body)))

\* KPIForecast.readcache (the value left in self.data when it returns)
KPI_readcache(f) == IF pickle_load(f) = "ok" THEN f.data ELSE None

\* KPIForecast.__init__, lines 29-34: the test that leads to the download
kpi_stale(f, cache_time, t) ==
  IF ~f.exists THEN TRUE
  ELSE IF t - f.mtime > cache_time THEN TRUE
  ELSE FALSE

\* KPIForecast.__init__
KPIRequest ==
  /\ feed = "kpi"
  /\ IF ~kpi_stale(file, KPI_CACHE_TIME, now)
     THEN /\ file' = AfterRead(file, now)
          /\ last' = Request(FALSE, NoResponse, FALSE, KPI_readcache(file), FALSE)
     ELSE \E resp \in Responses :
            LET d == download(resp)
            IN IF d.raised
               THEN \* finally: readcache, then the exception goes on
                    /\ file' = AfterRead(file, now)
                    /\ last' = Request(TRUE, resp, TRUE, None, FALSE)
               ELSE IF Truthy(d.value)
               THEN LET f1 == AfterWrite(file, d.value, now)
                    IN /\ file' = AfterRead(f1, now)
                       /\ last' = Request(TRUE, resp, FALSE, KPI_readcache(f1), TRUE)
               ELSE /\ file' = AfterRead(file, now)
                    /\ last' = Request(TRUE, resp, FALSE, KPI_readcache(file), FALSE)
  /\ UNCHANGED <<feed, mount, now, mvars, rvars, qvars>>

-----------------------------------------------------------------------------
\* sunfluxbot.py: alerts and images

\* download_alert: the loop body returns on its first pass, so the message
\* of the first record of the payload comes back
download_alert(resp) ==
  IF resp.error = "URLError" THEN Returned(None)
  ELSE IF resp.error # "none" THEN Raised
  ELSE IF resp.status # 200 THEN Returned(None)
  ELSE IF resp.body = <<>> THEN Returned(None)
  ELSE Returned(Str(resp.body[1][2]))

\* readcache (its value when it returns)
readcache(f) == IF pickle_load(f) = "ok" THEN f.data ELSE None

\* the staleness test of get_alert, noaa_download, send_flux: st_atime
atime_stale(f, cache_time, t) ==
  IF ~f.exists THEN TRUE
  ELSE IF t - f.atime > cache_time THEN TRUE
  ELSE FALSE

\* get_alert
AlertRequest ==
  /\ feed = "alerts"
  /\ IF ~atime_stale(file, ALERT_CACHE_TIME, now)
     THEN /\ file' = AfterRead(file, now)
          /\ last' = Request(FALSE, NoResponse, FALSE, readcache(file), FALSE)
     ELSE \E resp \in Responses :
            LET a == download_alert(resp)
            IN IF a.raised
               THEN /\ file' = file
                    /\ last' = Request(TRUE, resp, TRUE, None, FALSE)
               ELSE /\ file' = AfterWrite(file, a.value, now)
                    /\ last' = Request(TRUE, resp, FALSE, a.value, TRUE)
  /\ UNCHANGED <<feed, mount, now, mvars, rvars, qvars>>

\* noaa_download and the handler that sends the image (send_tec, ...):
\* urlretrieve raises on a network error, else writes the body to the file;
\* the handler then opens the file to send it
ImageRequest ==
  /\ feed = "image"
  /\ IF ~atime_stale(file, IMAGE_CACHE_TIME, now)
     THEN /\ file' = AfterRead(file, now)
          /\ last' = Request(FALSE, NoResponse, FALSE, file.data, FALSE)
     ELSE \E resp \in Responses :
            /\ resp.error # "DecodeError"
            /\ IF resp.error # "none"
               THEN /\ file' = file
                    /\ last' = Request(TRUE, resp, TRUE, None, FALSE)
               ELSE LET f1 == AfterWrite(file, Bytes(resp.body), now)
                    IN /\ file' = AfterRead(f1, now)
                       /\ last' = Request(TRUE, resp, FALSE, f1.data, TRUE)
  /\ UNCHANGED <<feed, mount, now, mvars, rvars, qvars>>

\* send_flux (send_kpindex is the same code): a stale image is redrawn by
\* the graph script, run as a subprocess; a non-zero exit ends the handler,
\* after a zero exit the image the script wrote is opened and sent
FluxRequest ==
  /\ feed = "flux"
  /\ IF ~atime_stale(file, FLUX_CACHE_TIME, now)
     THEN /\ file' = AfterRead(file, now)
          /\ last' = Request(FALSE, NoResponse, FALSE, file.data, FALSE)
     ELSE \E value \in {0, 1}, img \in Payloads :
            IF value # 0
            THEN /\ img = <<>>
                 /\ file' = file
                 /\ last' = Request(TRUE, Response("URLError", 0, <<>>), FALSE, None, FALSE)
            ELSE LET f1 == AfterWrite(file, Bytes(img), now)
                 IN /\ file' = AfterRead(f1, now)
                    /\ last' = Request(TRUE, Response("none", 200, img), FALSE, f1.data, TRUE)
  /\ UNCHANGED <<feed, mount, now, mvars, rvars, qvars>>

-----------------------------------------------------------------------------
\* The clock

\* time passes between two invocations; the process of the last one is gone
Tick ==
  /\ \E t \in Instants(TTL(feed)) : t > now /\ now' = t
  /\ last' = NoRequest
  /\ UNCHANGED <<feed, mount, file, mvars, rvars, qvars>>

\* the system clock is set back between two invocations
ClockSkew ==
  /\ \E t \in Instants(TTL(feed)) : t < now /\ now' = t
  /\ last' = NoRequest
  /\ UNCHANGED <<feed, mount, file, mvars, rvars, qvars>>

-----------------------------------------------------------------------------
\* The requests of one feed, from a first run without a cache file

Mounts == {"strictatime", "relatime", "noatime"}

Init ==
  /\ feed \in Feeds
  /\ mount \in Mounts
  /\ now = 0
  /\ file = NoFile
  /\ last = NoRequest
  /\ mX = <<>> /\ mY = <<>> /\ mOut = <<>> /\ mY2 = <<>> /\ mOut2 = <<>>
  /\ mStep = "off" /\ mHeld = <<>>
  /\ procs = <<>> /\ disk0 = NoFile
  /\ qIn = <<>> /\ qOut = <<>> /\ qStep = "off"

Next ==
  \/ SSNRequest
  \/ KPIRequest
  \/ AlertRequest
  \/ ImageRequest
  \/ FluxRequest
  \/ Tick
  \/ ClockSkew

Spec == Init /\ [][Next]_vars

-----------------------------------------------------------------------------
\* The merge of SSN.read_url, studied on its own: a canonical cached
\* sequence X and a fetched batch Y are drawn, a refresh merges Y into X,
\* and then either the same batch is replayed in a second refresh or the
\* first refresh is redone with the records of Y in another order

MergeTimes == {0, 15, 30, 45}
CachedValues == {3}
BatchValues == {4, 5}

RECURSIVE Ascending(_)
\* the records <<t, 3>>, t \in T, in ascending order
Ascending(T) ==
  IF T = {} THEN <<>>
  ELSE LET t == CHOOSE x \in T : \A y \in T : x <= y
       IN <<<<t, 3>>>> \o Ascending(T \ {t})

\* a history of later records that fills the cache up to one short of the
\* retention bound
History == [i \in 1..(RETENTION - 1) |-> <<100 + i, 3>>]

\* canonical sequences: ascending, one record per timestamp, at most
\* RETENTION records
CanonicalInputs ==
  {Ascending(T) : T \in SUBSET MergeTimes}
  \cup {Ascending(T) \o History :
          T \in {{}, {0}, {45}}}

Batches == SeqsUpTo(MergeTimes \X BatchValues, MaxBatch)

\* the orders in which the records of a batch can arrive
Reorderings(s) ==
  {[i \in DOMAIN s |-> s[f[i]]] : f \in Permutations(DOMAIN s)}

\* a successful fetch of the batch
Fetched(batch) == Response("none", 200, batch)

MergeInit ==
  /\ feed = "ssn"
  /\ mount = "relatime"
  /\ now = 0
  /\ file = NoFile
  /\ last = NoRequest
  /\ mX \in CanonicalInputs
  /\ mY \in Batches
  /\ mOut = <<>>
  /\ mY2 = <<>>
  /\ mOut2 = <<>>
  /\ mStep = "in"
  /\ mHeld = mX
  /\ procs = <<>> /\ disk0 = NoFile
  /\ qIn = <<>> /\ qOut = <<>> /\ qStep = "off"

\* the refresh: SSN.read_url(url, X) with the batch Y fetched
Refresh ==
  /\ mStep = "in"
  /\ mOut' = read_url(Fetched(mY), List(mX)).value.items
  /\ mHeld' = read_url_held(Fetched(mY), List(mX)).items
  /\ mStep' = "merged"
  /\ UNCHANGED <<feed, mount, now, file, last, mX, mY, mY2, mOut2, rvars, qvars>>

\* a second refresh that fetches the same batch again
Replay ==
  /\ mStep = "merged"
  /\ mY2' = mY
  /\ mOut2' = read_url(Fetched(mY2'), List(mOut)).value.items
  /\ mStep' = "replayed"
  /\ UNCHANGED <<feed, mount, now, file, last, mX, mY, mOut, mHeld, rvars, qvars>>

\* the refresh of X with the records of Y arriving in another order
Reordered ==
  /\ mStep = "merged"
  /\ \E p \in Reorderings(mY) :
       /\ mY2' = p
       /\ mOut2' = read_url(Fetched(p), List(mX)).value.items
  /\ mStep' = "permuted"
  /\ UNCHANGED <<feed, mount, now, file, last, mX, mY, mOut, mHeld, rvars, qvars>>

MergeNext ==
  \/ Refresh
  \/ Replay
  \/ Reordered

MergeSpec == MergeInit /\ [][MergeNext]_vars

-----------------------------------------------------------------------------
\* Race study: two invocations on one cache file, one step of the code at a
\* time.  A save is two steps, open(path, 'wb'), which leaves a file of zero
\* bytes, and pickle.dump followed by the close of the file; an invocation
\* can be stopped between any two steps.  The clock stands still.

Procs == {1, 2}
RaceFeeds == {"ssn", "kpi", "alerts"}

\* what the cache file may hold before the invocations start
RaceContents(fd) ==
  IF fd = "alerts" THEN {Str(4)}
  ELSE {List(<<<<15, 4>>>>), List(<<<<15, 4>>, <<30, 4>>>>)}

RaceResponses == {r \in Responses : Len(r.body) <= 1}

\* an invocation: its position, self.data (or the local alert), an exception
\* waiting behind a finally clause, the response it fetched, the value its
\* save completed with, and what its load met: the outcome of pickle.load,
\* whether the load routine raised, the value it handed back, whether the
\* other invocation was inside a save and the value that one was saving
NotStarted ==
  [pc |-> "start", data |-> None, raising |-> FALSE, got |-> NoResponse,
   dumped |-> FALSE, out |-> None, saw |-> "none", threw |-> FALSE,
   loaded |-> None, mid |-> FALSE, new |-> None]

Terminal == {"done", "raised", "killed", "cut"}

\* the record of a load made by p on the file as it stands
Observed(p, v) ==
  LET savers == {q \in Procs \ {p} : procs[q].pc = "dump"}
  IN [procs[p] EXCEPT
        !.saw = pickle_load(file), !.threw = load_raises(file), !.loaded = v,
        !.mid = savers # {},
        !.new = IF savers = {} THEN None
                ELSE procs[CHOOSE q \in savers : TRUE].data]

\* SSN.__init__, line 35: self.data = SSN.read_cache(cache_file)
SSNReadCache(p) ==
  /\ feed = "ssn" /\ procs[p].pc = "start"
  /\ procs' = [procs EXCEPT ![p] =
       IF load_raises(file)
       THEN [Observed(p, None) EXCEPT !.pc = "raised"]
       ELSE [Observed(p, read_cache(file)) EXCEPT
               !.pc = "check", !.data = read_cache(file)]]
  /\ file' = AfterRead(file, now)
  /\ UNCHANGED <<feed, mount, now, last, mvars, disk0, qvars>>

\* SSN.__init__, line 37: if SSN.is_expired(cache_file, cache_time)
SSNIsExpired(p) ==
  /\ feed = "ssn" /\ procs[p].pc = "check"
  /\ procs' = [procs EXCEPT ![p].pc =
       IF is_expired(file, SSN_CACHE_TIME, now) THEN "fetch" ELSE "done"]
  /\ UNCHANGED <<feed, mount, now, file, last, mvars, disk0, qvars>>

\* SSN.__init__, line 39: self.data = SSN.read_url(SIDC_URL, self.data)
SSNReadUrl(p) ==
  /\ feed = "ssn" /\ procs[p].pc = "fetch"
  /\ \E resp \in RaceResponses :
       LET r == read_url(resp, procs[p].data)
       IN procs' = [procs EXCEPT ![p] =
            IF r.raised
            THEN [procs[p] EXCEPT !.pc = "raised", !.got = resp]
            ELSE [procs[p] EXCEPT !.pc = "open", !.got = resp,
                                  !.data = r.value]]
  /\ UNCHANGED <<feed, mount, now, file, last, mvars, disk0, qvars>>

\* KPIForecast.__init__, lines 30-33: the stat and the age test
KPIStat(p) ==
  /\ feed = "kpi" /\ procs[p].pc = "start"
  /\ procs' = [procs EXCEPT ![p].pc =
       IF kpi_stale(file, KPI_CACHE_TIME, now) THEN "fetch" ELSE "load"]
  /\ UNCHANGED <<feed, mount, now, file, last, mvars, disk0, qvars>>

\* KPIForecast.__init__, lines 34-36: self.download(); if self.data: ...
KPIDownload(p) ==
  /\ feed = "kpi" /\ procs[p].pc = "fetch"
  /\ \E resp \in RaceResponses :
       LET d == download(resp)
       IN procs' = [procs EXCEPT ![p] =
            IF d.raised
            THEN [procs[p] EXCEPT !.pc = "load", !.got = resp,
                                  !.raising = TRUE]
            ELSE [procs[p] EXCEPT
                    !.pc = IF Truthy(d.value) THEN "open" ELSE "load",
                    !.got = resp, !.data = d.value]]
  /\ UNCHANGED <<feed, mount, now, file, last, mvars, disk0, qvars>>

\* KPIForecast.__init__, lines 38-39: finally: self.readcache(); an exception
\* of the download goes on after it
KPIReadCache(p) ==
  /\ feed = "kpi" /\ procs[p].pc = "load"
  /\ procs' = [procs EXCEPT ![p] =
       IF load_raises(file)
       THEN [Observed(p, None) EXCEPT !.pc = "raised"]
       ELSE [Observed(p, KPI_readcache(file)) EXCEPT
               !.pc = IF procs[p].raising THEN "raised" ELSE "done",
               !.data = KPI_readcache(file)]]
  /\ file' = AfterRead(file, now)
  /\ UNCHANGED <<feed, mount, now, last, mvars, disk0, qvars>>

\* get_alert, lines 90-94: the stat and the age test
AlertStat(p) ==
  /\ feed = "alerts" /\ procs[p].pc = "start"
  /\ procs' = [procs EXCEPT ![p].pc =
       IF atime_stale(file, ALERT_CACHE_TIME, now) THEN "fetch" ELSE "load"]
  /\ UNCHANGED <<feed, mount, now, file, last, mvars, disk0, qvars>>

\* get_alert, line 95: alert = download_alert()
AlertDownload(p) ==
  /\ feed = "alerts" /\ procs[p].pc = "fetch"
  /\ \E resp \in RaceResponses :
       LET a == download_alert(resp)
       IN procs' = [procs EXCEPT ![p] =
            IF a.raised
            THEN [procs[p] EXCEPT !.pc = "raised", !.got = resp]
            ELSE [procs[p] EXCEPT !.pc = "open", !.got = resp,
                                  !.data = a.value]]
  /\ UNCHANGED <<feed, mount, now, file, last, mvars, disk0, qvars>>

\* get_alert, lines 99-100: alert = readcache(cachefile); return alert
AlertReadCache(p) ==
  /\ feed = "alerts" /\ procs[p].pc = "load"
  /\ procs' = [procs EXCEPT ![p] =
       IF load_raises(file)
       THEN [Observed(p, None) EXCEPT !.pc = "raised"]
       ELSE [Observed(p, readcache(file)) EXCEPT
               !.pc = "done", !.data = readcache(file)]]
  /\ file' = AfterRead(file, now)
  /\ UNCHANGED <<feed, mount, now, last, mvars, disk0, qvars>>

\* write_cache / writecache, first line: open(path, 'wb') creates the file
\* or cuts it to zero bytes
OpenForWrite(p) ==
  /\ procs[p].pc = "open"
  /\ file' = AfterWrite(file, ZeroBytes, now)
  /\ procs' = [procs EXCEPT ![p].pc = "dump"]
  /\ UNCHANGED <<feed, mount, now, last, mvars, disk0, qvars>>

\* write_cache / writecache, second line and the end of the with block:
\* pickle.dump(data, fd) and the close that flushes it
Dump(p) ==
  /\ procs[p].pc = "dump"
  /\ file' = AfterWrite(file, procs[p].data, now)
  /\ procs' = [procs EXCEPT ![p] =
       [procs[p] EXCEPT !.dumped = TRUE, !.out = procs[p].data,
                        !.pc = IF feed = "kpi" THEN "load" ELSE "done"]]
  /\ UNCHANGED <<feed, mount, now, last, mvars, disk0, qvars>>

\* the process is stopped outside a save (a signal, a reboot)
Interrupt(p) ==
  /\ procs[p].pc \notin Terminal \cup {"start", "dump"}
  /\ procs' = [procs EXCEPT ![p].pc = "killed"]
  /\ UNCHANGED <<feed, mount, now, file, last, mvars, disk0, qvars>>

\* the process is stopped between the open and the close of a save: nothing
\* of the pickle has reached the file, or, for a list that holds records, its
\* first bytes have (a full disk, a crash during the flush)
InterruptSave(p) ==
  /\ procs[p].pc = "dump"
  /\ \E part \in {ZeroBytes} \cup
                 (IF procs[p].data.tag = "list" /\ procs[p].data.items # <<>>
                  THEN {CutShort} ELSE {}) :
       file' = AfterWrite(file, part, now)
  /\ procs' = [procs EXCEPT ![p].pc = "cut"]
  /\ UNCHANGED <<feed, mount, now, last, mvars, disk0, qvars>>

RaceFiles(fd) ==
  {NoFile} \cup {AfterWrite(NoFile, c, 0) : c \in RaceContents(fd)}

RaceInit ==
  /\ feed \in RaceFeeds
  /\ mount = "relatime"
  /\ now \in {0, TTL(feed) + 1}
  /\ file \in RaceFiles(feed)
  /\ disk0 = file
  /\ procs = [p \in Procs |-> NotStarted]
  /\ last = NoRequest
  /\ mX = <<>> /\ mY = <<>> /\ mOut = <<>> /\ mY2 = <<>> /\ mOut2 = <<>>
  /\ mStep = "off" /\ mHeld = <<>>
  /\ qIn = <<>> /\ qOut = <<>> /\ qStep = "off"

RaceNext ==
  \/ \E p \in Procs : SSNReadCache(p)
  \/ \E p \in Procs : SSNIsExpired(p)
  \/ \E p \in Procs : SSNReadUrl(p)
  \/ \E p \in Procs : KPIStat(p)
  \/ \E p \in Procs : KPIDownload(p)
  \/ \E p \in Procs : KPIReadCache(p)
  \/ \E p \in Procs : AlertStat(p)
  \/ \E p \in Procs : AlertDownload(p)
  \/ \E p \in Procs : AlertReadCache(p)
  \/ \E p \in Procs : OpenForWrite(p)
  \/ \E p \in Procs : Dump(p)
  \/ \E p \in Procs : Interrupt(p)
  \/ \E p \in Procs : InterruptSave(p)

RaceSpec == RaceInit /\ [][RaceNext]_vars

-----------------------------------------------------------------------------
\* Parse study: the functions that turn what a feed sends into records, and
\* the selection of the chart window, each on inputs drawn in Init.
\* A text field is a sequence of characters.  A number is [tag, num, den]:
\* int(f) is num with den = 1, float(f) is num / den.

\* the longest text field
MaxFieldLen == 2
\* the most rows of a payload or of a cached forecast
MaxRows == 2

Chars == {"0", "1", ".", "a", " "}
Digits == {"0", "1"}
Fields == SeqsUpTo(Chars, MaxFieldLen)

Number(tag, num, den) == [tag |-> tag, num |-> num, den |-> den]
Zero == Number("int", 0, 1)

\* str.strip
strip(f) ==
  LET solid == {i \in DOMAIN f : f[i] # " "}
  IN IF solid = {} THEN <<>>
     ELSE SubSeq(f, CHOOSE i \in solid : \A j \in solid : i <= j,
                    CHOOSE i \in solid : \A j \in solid : j <= i)

\* str.isdecimal
isdecimal(f) == f # <<>> /\ \A i \in DOMAIN f : f[i] \in Digits

DigitValue(c) == IF c = "1" THEN 1 ELSE 0

RECURSIVE Power10(_)
Power10(n) == IF n = 0 THEN 1 ELSE 10 * Power10(n - 1)

\* int(f) of a field of decimal digits
RECURSIVE int(_)
int(f) ==
  IF f = <<>> THEN 0
  ELSE 10 * int(SubSeq(f, 1, Len(f) - 1)) + DigitValue(f[Len(f)])

\* float(f): digits around one decimal point, at least one digit; anything
\* else is a ValueError
float(f) ==
  LET points == {i \in DOMAIN f : f[i] = "."}
      digits == SelectSeq(f, LAMBDA c : c \in Digits)
  IN IF /\ \A i \in DOMAIN f : f[i] \in Digits \cup {"."}
        /\ Cardinality(points) = 1
        /\ digits # <<>>
     THEN Returned(Number("float", int(digits),
                          Power10(Len(f) - CHOOSE i \in points : TRUE)))
     ELSE Raised

\* SSN.convert, lines 59-66: one pass of the loop
convert_field(field) ==
  LET f == strip(field)
  IN IF isdecimal(f) THEN Returned(Number("int", int(f), 1))
     ELSE IF \E i \in DOMAIN f : f[i] = "." THEN float(f)
     ELSE Returned(Zero)

DaysIn(y, m) ==
  IF m \in {4, 6, 9, 11} THEN 30
  ELSE IF m # 2 THEN 31
  ELSE IF y % 4 = 0 /\ (y % 100 # 0 \/ y % 400 = 0) THEN 29
  ELSE 28

\* datetime.date(y, m, d): TypeError for a float, ValueError out of range
date(y, m, d) ==
  IF /\ y.tag = "int" /\ m.tag = "int" /\ d.tag = "int"
     /\ y.num \in 1..9999 /\ m.num \in 1..12
     /\ d.num \in 1..DaysIn(y.num, m.num)
  THEN Returned([tag |-> "date", y |-> y.num, m |-> m.num, d |-> d.num])
  ELSE Raised

\* SSN.convert
convert(fields) ==
  LET ftmp == [i \in DOMAIN fields |-> convert_field(fields[i])]
  IN IF \E i \in DOMAIN ftmp : ftmp[i].raised THEN Raised
     ELSE IF Len(ftmp) < 3 THEN Raised  \* date() misses an argument
     ELSE LET day == date(ftmp[1].value, ftmp[2].value, ftmp[3].value)
          IN IF day.raised THEN Raised
             ELSE Returned(<<day.value>> \o
                    [i \in 1..(Len(ftmp) - 3) |-> ftmp[i + 3].value])

\* a row of the sunspot CSV as it should be, and the rows that differ from
\* it in one field; the empty row of a blank line
GoodRow == <<<<"1", "1">>, <<"1">>, <<"1", "0">>, <<"1", "1">>>>
CsvRows ==
  {<<>>} \cup
  {[i \in DOMAIN GoodRow |-> IF i = k THEN f ELSE GoodRow[i]] :
     k \in DOMAIN GoodRow, f \in Fields}

\* the timestamp text of a JSON record is <<day, hour>> of one month;
\* datetime.strptime gives the hour of the month or raises ValueError
strptime(text) ==
  IF text[1] \in 1..31 /\ text[2] \in 0..23
  THEN Returned((text[1] - 1) * 24 + text[2])
  ELSE Raised

JsonTimes == {<<1, 0>>, <<1, 3>>, <<2, 0>>, <<1, 24>>, <<0, 3>>}
JsonRows == JsonTimes \X {<<"1">>, <<"1", "0">>}
JsonPayloads == SeqsUpTo(JsonRows, MaxRows)

\* KPIForecast.download, lines 108-111: data = [] and the loop over the rows
RECURSIVE parse_rows(_)
parse_rows(rows) ==
  IF rows = <<>> THEN Returned(<<>>)
  ELSE LET rest == parse_rows(SubSeq(rows, 1, Len(rows) - 1))
           elem == rows[Len(rows)]
       IN IF rest.raised \/ strptime(elem[1]).raised THEN Raised
          ELSE Returned(Append(rest.value,
                               <<strptime(elem[1]).value, int(elem[2])>>))

\* KPIForecast.download on the rows of a payload
download_rows(rows) ==
  LET parsed == parse_rows(rows)
  IN IF parsed.raised THEN Raised
     ELSE download(Response("none", 200, parsed.value))

\* download_alert, lines 115-126, on the records of a payload: the first
\* pass of the loop parses the first record and returns its message
alert_rows(rows) ==
  IF rows = <<>> THEN Returned(None)
  ELSE IF strptime(rows[1][1]).raised THEN Raised
  ELSE Returned(Str(rows[1][2]))

\* KPIForecast.graph, lines 46-47: the edges of the chart, in hours
WINDOW_BEFORE == 3 * 24 + 4
WINDOW_AFTER == 1 * 24 + 6

\* faulty variant of select: the edges belong to the window
select_closed(data, start_date, end_date) ==
  SelectSeq(data, LAMBDA d : start_date <= d[1] /\ d[1] <= end_date)

\* KPIForecast.graph, line 48: [d for d in self.data if start < d[0] < end]
select(data, start_date, end_date) ==
  SelectSeq(data, LAMBDA d : start_date < d[1] /\ d[1] < end_date)

\* KPIForecast.graph: None without data, else the chart of the window is
\* drawn and saved whatever the window holds
graph(data, utcnow) ==
  IF ~Truthy(data) THEN [returned |-> None, saved |-> FALSE, xdates |-> <<>>]
  ELSE [returned |-> Str("filename"), saved |-> TRUE,
        xdates |-> select(data.items, utcnow - WINDOW_BEFORE,
                          utcnow + WINDOW_AFTER)]

\* the hours the cached forecasts carry and the hours a chart is asked at
WindowTimes == {0, 24, 25, 26, 129, 130, 131, 200}
WindowNows == {100, 101}
WindowData == {sorted(w) : w \in SeqsUpTo(WindowTimes \X {1}, MaxRows)}

QueryInputs ==
  {[kind |-> "csv", rows |-> r, utcnow |-> 0] : r \in CsvRows}
  \cup {[kind |-> "json", rows |-> r, utcnow |-> 0] : r \in JsonPayloads}
  \cup {[kind |-> "window", rows |-> r, utcnow |-> t] :
          r \in WindowData, t \in WindowNows}

ParseInit ==
  /\ qIn \in QueryInputs
  /\ qOut = <<>>
  /\ qStep = "in"
  /\ feed = "ssn" /\ mount = "relatime" /\ now = 0
  /\ file = NoFile /\ last = NoRequest
  /\ mX = <<>> /\ mY = <<>> /\ mOut = <<>> /\ mY2 = <<>> /\ mOut2 = <<>>
  /\ mStep = "off" /\ mHeld = <<>>
  /\ procs = <<>> /\ disk0 = NoFile

Convert ==
  /\ qStep = "in" /\ qIn.kind = "csv"
  /\ qOut' = convert(qIn.rows)
  /\ qStep' = "convert"
  /\ UNCHANGED <<feed, mount, now, file, last, mvars, rvars, qIn>>

Download ==
  /\ qStep = "in" /\ qIn.kind = "json"
  /\ qOut' = download_rows(qIn.rows)
  /\ qStep' = "download"
  /\ UNCHANGED <<feed, mount, now, file, last, mvars, rvars, qIn>>

DownloadAlert ==
  /\ qStep = "in" /\ qIn.kind = "json"
  /\ qOut' = alert_rows(qIn.rows)
  /\ qStep' = "download_alert"
  /\ UNCHANGED <<feed, mount, now, file, last, mvars, rvars, qIn>>

Graph ==
  /\ qStep = "in" /\ qIn.kind = "window"
  /\ qOut' = graph(List(qIn.rows), qIn.utcnow)
  /\ qStep' = "graph"
  /\ UNCHANGED <<feed, mount, now, file, last, mvars, rvars, qIn>>

ParseNext == Convert \/ Download \/ DownloadAlert \/ Graph

ParseSpec == ParseInit /\ [][ParseNext]_vars

-----------------------------------------------------------------------------
\* Properties of the requests (checked under Spec)

IsRequest == last.kind = "request"

\* the request found the cache stale and its HTTP fetch failed
FailedRefresh == IsRequest /\ last.stale /\ FetchFailed(last.resp)

\* the request found the cache stale, fetched a 200 response and returned
GoodRefresh ==
  /\ IsRequest /\ last.stale /\ ~last.raised
  /\ last.resp.error = "none" /\ last.resp.status = 200

\* what the feed's load routine gives for a cache file
Load(fd, f) ==
  CASE fd = "ssn" -> read_cache(f)
    [] fd = "kpi" -> KPI_readcache(f)
    [] OTHER -> readcache(f)

\* ascending timestamps, no timestamp twice
Canonical(s) == \A i, j \in DOMAIN s : i < j => s[i][1] < s[j][1]

Records(s) == {s[i] : i \in DOMAIN s}

\* C1: on every feed with a data cache (forecast, sunspot number, alerts), a
\* request that finds the cache stale and whose fetch fails completes
\* normally and returns the data cached before the attempt.
C1_FailedFetchFallsBack ==
  (FailedRefresh /\ feed \in {"kpi", "ssn", "alerts"})
    => (~last.raised /\ last.returned = Load(feed, last.before))

\* C2: a refresh attempt whose fetch fails writes nothing: the cache file
\* holds after the request what it held before.
C2_FailedFetchLeavesFile ==
  FailedRefresh
    => /\ ~last.wrote
       /\ file.exists = last.before.exists
       /\ file.data = last.before.data

\* C3: on the time-series feeds, after a successful refresh every record
\* cached before whose timestamp is not in the incoming batch is still in the
\* persisted sequence, unless the retention bound removed it.
C3_RefreshKeepsCached ==
  (GoodRefresh /\ feed \in TimeSeriesFeeds)
    => LET old == last.before.data.items
           all == Times(old) \cup Times(last.resp.body)
       IN \A r \in Records(old) :
            (/\ r[1] \notin Times(last.resp.body)
             /\ Cardinality({t \in all : t > r[1]}) < RETENTION)
              => r \in Records(file.data.items)

\* C4: on the time-series feeds the persisted sequence and the sequence
\* returned to the caller are in ascending timestamp order and hold no
\* timestamp twice, whatever the fetched payloads held.
C4_AlwaysCanonical ==
  feed \in TimeSeriesFeeds
    => /\ Canonical(file.data.items)
       /\ (IsRequest /\ ~last.raised) => Canonical(last.returned.items)

\* C9: the staleness check of SSN.is_expired and KPIForecast.__init__ is
\* true when the file does not exist, true when now - mtime > ttl, false when
\* now - mtime <= ttl, a negative elapsed time included.
C9_StalenessCheck ==
  (IsRequest /\ feed \in TimeSeriesFeeds)
    => LET f == last.before
       IN /\ ~f.exists => last.stale
          /\ (f.exists /\ now - f.mtime > TTL(feed)) => last.stale
          /\ (f.exists /\ now - f.mtime <= TTL(feed)) => ~last.stale

\* a sunspot-number request made with the clock behind the file's
\* modification time, which found the cache usable
C9_Witness ==
  /\ IsRequest /\ feed = "ssn"
  /\ last.before.exists /\ now < last.before.mtime
  /\ ~last.stale

\* C10: on every cache, a file last written at time t is treated as stale
\* by every request made after t + ttl, however often it was read meanwhile.
C10_StaleAfterTTL ==
  (IsRequest /\ last.before.exists /\ now > last.before.mtime + TTL(feed))
    => last.stale

-----------------------------------------------------------------------------
\* Properties of the merge (checked under MergeSpec)

\* the timestamp is among the RETENTION latest of the merged timestamps
Retained(t) ==
  Cardinality({u \in Times(mX) \cup Times(mY) : u > t}) < RETENTION

\* the records of the result that carry timestamp t
At(s, t) == {r \in Records(s) : r[1] = t}

\* the last record of the batch with timestamp t
LastIncoming(t) ==
  LET at == {i \in DOMAIN mY : mY[i][1] = t}
  IN mY[CHOOSE i \in at : \A j \in at : j <= i]

ExampleCached == <<<<0, 3>>, <<15, 3>>, <<30, 3>>>>
ExampleIncoming == <<<<15, 5>>, <<45, 4>>>>
ExampleMerged == <<<<0, 3>>, <<15, 5>>, <<30, 3>>, <<45, 4>>>>

\* C5 as stated: for every timestamp that the batch shares with the cached
\* sequence, the result holds exactly one record with it, an incoming one.
C5_IncomingWinsAlways ==
  mStep = "merged"
    => \A t \in Times(mX) \cap Times(mY) :
         /\ Cardinality(At(mOut, t)) = 1
         /\ At(mOut, t) \subseteq Records(mY)

\* C5 as amended: for every timestamp that the batch shares with the cached
\* sequence and that the retention bound does not cut off, the result holds
\* exactly one record with it, the last incoming one; the example of the
\* specification merges to [(0,3),(15,5),(30,3),(45,4)].
C5_IncomingWins ==
  mStep = "merged"
    => /\ \A t \in Times(mX) \cap Times(mY) :
            Retained(t) => At(mOut, t) = {LastIncoming(t)}
       /\ \A i, j \in DOMAIN mOut : i # j => mOut[i][1] # mOut[j][1]
       /\ (mX = ExampleCached /\ mY = ExampleIncoming) => mOut = ExampleMerged

\* the example of the specification has been merged
C5_Witness ==
  mStep = "merged" /\ mX = ExampleCached /\ mY = ExampleIncoming

\* C6: replaying the same batch in a second refresh leaves the sequence as
\* the first refresh made it, also when the retention bound truncates.
C6_ReplayIdempotent == mStep = "replayed" => mOut2 = mOut

\* a replay after a merge that the retention bound truncated
C6_Witness ==
  /\ mStep = "replayed" /\ mY # <<>>
  /\ Cardinality(Times(mX) \cup Times(mY)) > RETENTION

\* C7: a refresh whose payload holds no records leaves the cached sequence
\* exactly as it was.
C7_EmptyBatch == (mStep = "merged" /\ mY = <<>>) => mOut = mX

\* an empty batch merged into a cache that is RETENTION records long
C7_Witness == mStep = "merged" /\ mY = <<>> /\ Len(mX) = RETENTION

\* C8 as stated: the merge gives the same result for every order of the
\* records of the batch, batches with a repeated timestamp included.
C8_AnyOrder == mStep = "permuted" => mOut2 = mOut

\* no two records of the batch share a timestamp and differ
NoConflict(s) == \A i, j \in DOMAIN s : s[i][1] = s[j][1] => s[i] = s[j]

\* C8 as amended: the merge gives the same result for every order of the
\* records of a batch in which no two records share a timestamp and differ.
C8_AnyOrderNoConflict ==
  (mStep = "permuted" /\ NoConflict(mY)) => mOut2 = mOut

\* a batch of records with different timestamps merged in two orders
C8_Witness ==
  /\ mStep = "permuted" /\ NoConflict(mY)
  /\ mY2 # mY /\ Cardinality(Times(mY)) >= 2

-----------------------------------------------------------------------------
\* Properties of the race study (RaceSpec)

\* the file holds what it held before the invocations started
Untouched == file.exists = disk0.exists /\ file.data = disk0.data

\* p is inside a save over a cache file that held a sequence, or was stopped
\* inside one, and the other invocation has not started
AloneInSave(p) ==
  /\ disk0.exists
  /\ procs[p].pc \in {"dump", "cut"}
  /\ \A q \in Procs \ {p} : procs[q].pc = "start"

\* C11: while an invocation is inside a save, and after it was stopped
\* there, the cache file holds the whole previous content or the whole new
\* one
C11_SaveIsAtomic ==
  \A p \in Procs : AloneInSave(p) => (Untouched \/ file.data = procs[p].data)

\* C12: a load made while the other invocation is inside a save hands back
\* the complete old content or the complete new one, and does not raise
C12_ReaderSeesWhole ==
  \A p \in Procs :
    procs[p].mid =>
      /\ ~procs[p].threw
      /\ procs[p].loaded \in {Load(feed, disk0), procs[p].new}

\* both invocations fetched with success and completed their save
BothRefreshed ==
  /\ feed \in TimeSeriesFeeds
  /\ \A p \in Procs : procs[p].pc = "done" /\ procs[p].dumped

\* the timestamps one of the two fetched payloads carries
Superseding == UNION {Times(procs[p].got.body) : p \in Procs}

\* C13: after two concurrent refreshes of a feed the cache file is a
\* canonical sequence saved by one of them, and holds every record cached
\* before that neither payload supersedes
C13_RaceKeepsCached ==
  BothRefreshed =>
    /\ pickle_load(file) = "ok"
    /\ file.data.tag = "list"
    /\ Canonical(file.data.items)
    /\ \E p \in Procs : file.data = procs[p].out
    /\ \A r \in Records(Load(feed, disk0).items) :
         r[1] \notin Superseding => r \in Records(file.data.items)

\* the load of p met a file that is missing or has zero bytes
MetNothing(p) == procs[p].saw \in {"FileNotFoundError", "EOFError"}

C15_CorruptLoadsEmpty ==
  \A p \in Procs :
    procs[p].saw = "UnpicklingError" =>
      ~procs[p].threw /\ procs[p].loaded = List(<<>>)

-----------------------------------------------------------------------------
\* Properties of the parse study (ParseSpec)

\* the rows whose timestamp parses
GoodRows(rows) == SelectSeq(rows, LAMBDA e : ~strptime(e[1]).raised)

\* one row of the payload has a timestamp that does not parse, the payload
\* has other rows
OneBadRow ==
  /\ Len(qIn.rows) - Len(GoodRows(qIn.rows)) = 1
  /\ GoodRows(qIn.rows) # <<>>

\* C16: when one record of a JSON payload has a timestamp that fails date
\* parsing, the result is the one the payload without that record gives:
\* nothing is raised and every other record is normalized and included
C16_BadRecordDropped ==
  /\ (qStep = "download" /\ OneBadRow) =>
       ~qOut.raised /\ qOut = download_rows(GoodRows(qIn.rows))
  /\ (qStep = "download_alert" /\ OneBadRow) =>
       ~qOut.raised /\ qOut = alert_rows(GoodRows(qIn.rows))

\* C17: SSN.convert raises for no row that has its fields, and every field
\* after the date is the integer its digits spell, a float when it holds a
\* decimal point, else 0
C17_ConvertTotal ==
  (qStep = "convert" /\ Len(qIn.rows) >= 3) =>
    /\ ~qOut.raised
    /\ Len(qOut.value) = Len(qIn.rows) - 2
    /\ \A i \in 4..Len(qIn.rows) :
         LET f == strip(qIn.rows[i])
             v == qOut.value[i - 2]
         IN IF isdecimal(f) THEN v = Number("int", int(f), 1)
            ELSE IF \E k \in DOMAIN f : f[k] = "." THEN v.tag = "float"
            ELSE v = Zero

\* the edges of the window of the chart that was asked
StartDate == qIn.utcnow - WINDOW_BEFORE
EndDate == qIn.utcnow + WINDOW_AFTER

\* how many times r stands in s
Count(s, r) == Cardinality({i \in DOMAIN s : s[i] = r})

\* C18: the records of the chart are exactly the cached records whose
\* timestamp is strictly between the two edges, each as many times as it is
\* cached, in ascending order of timestamp; none when no record is in range,
\* and the selection is empty for any pair of edges with start >= end
C18_WindowSelection ==
  (qStep = "graph" /\ qOut.saved) =>
    LET S == qIn.rows
        R == qOut.xdates
        InRange == {r \in Records(S) : StartDate < r[1] /\ r[1] < EndDate}
    IN /\ Records(R) = InRange
       /\ \A r \in InRange : Count(R, r) = Count(S, r)
       /\ \A i, j \in DOMAIN R : i < j => R[i][1] <= R[j][1]
       /\ InRange = {} => R = <<>>
       /\ \A a, b \in WindowTimes : a >= b => select(S, a, b) = <<>>

\* a chart whose window keeps a record and drops the record that stands on
\* its first edge
C18_Witness ==
  /\ qStep = "graph" /\ qOut.saved
  /\ StartDate \in Times(qIn.rows)
  /\ Len(qOut.xdates) = 1

-----------------------------------------------------------------------------
\* Properties of the requests (Spec) and of the merge (MergeSpec), continued

\* how main ends after the request: the exception of the constructor leaves
\* it, or graph has nothing to draw, or the chart is written
MainResult ==
  IF last.raised THEN "raised"
  ELSE IF ~Truthy(graph(last.returned, now).returned) THEN "EX_DATAERR"
  ELSE "EX_OK"

\* C19: a request of a time-series feed that finds no cached data and whose
\* fetch fails ends with EX_DATAERR: nothing is raised, no chart is written
C19_NothingToDisplay ==
  (/\ FailedRefresh
   /\ feed \in TimeSeriesFeeds
   /\ ~Truthy(Load(feed, last.before))) =>
    MainResult = "EX_DATAERR"

\* C20: after a merge the sequence has at most 90 records, one for each of
\* the 90 greatest timestamps of the cached and incoming records and for no
\* other, in ascending order
C20_KeepsLatest ==
  mStep = "merged" =>
    /\ Len(mOut) <= RETENTION
    /\ Canonical(mOut)
    /\ Records(mOut) \subseteq Records(mX) \cup Records(mY)
    /\ \A t \in Times(mX) \cup Times(mY) : t \in Times(mOut) <=> Retained(t)

\* a merge that had more than 90 timestamps to choose from, the incoming
\* ones out of order
C20_Witness ==
  /\ mStep = "merged"
  /\ Cardinality(Times(mX) \cup Times(mY)) > RETENTION
  /\ Len(mY) = 2 /\ mY[1][1] > mY[2][1]

\* C21: the cached list handed to read_url holds after the call what it held
\* before it, whether the fetch brought records or not
C21_CachedInputUnchanged == mStep = "merged" => mHeld = mX

-----------------------------------------------------------------------------
\* Properties of the requests (Spec), continued

\* the staleness test the feed's next request would make on the file
StaleNow ==
  CASE feed = "ssn" -> is_expired(file, SSN_CACHE_TIME, now)
    [] feed = "kpi" -> kpi_stale(file, KPI_CACHE_TIME, now)
    [] OTHER -> atime_stale(file, TTL(feed), now)

\* the request found the cache stale and its fetch did not succeed: an
\* exception, a connection error or a status other than 200
FailedAttempt ==
  /\ IsRequest /\ last.stale
  /\ (last.resp.error # "none" \/ last.resp.status # 200)

\* C22: after a request whose refresh attempt failed the cache is still
\* stale, so the request that follows immediately attempts the fetch again
C22_FailedRefreshRetried == FailedAttempt => StaleNow

\* the request found the cache usable
FreshRequest == IsRequest /\ ~last.stale

\* C23: a request that finds the cache not stale fetches nothing, leaves the
\* content and the modification time of the cache file as they were, and
\* returns exactly what the file holds
C23_FreshIsReadOnly ==
  FreshRequest =>
    /\ last.resp = NoResponse
    /\ ~last.wrote /\ ~last.raised
    /\ file.exists = last.before.exists
    /\ file.data = last.before.data
    /\ file.mtime = last.before.mtime
    /\ last.returned = last.before.data

\* a sunspot-number request that found a fresh cache with records in it
C23_Witness ==
  /\ FreshRequest /\ feed = "ssn"
  /\ last.before.data.tag = "list" /\ last.before.data.items # <<>>

\* C24: when a request on a pickled cache completes without raising, what it
\* hands to its caller is what a load of the cache file gives at that moment
C24_ReturnedIsPersisted ==
  (IsRequest /\ feed \in RaceFeeds /\ ~last.raised) =>
    last.returned = Load(feed, file)

\* a sunspot-number refresh that merged fetched records into cached ones
C24_Witness ==
  /\ GoodRefresh /\ feed = "ssn"
  /\ last.before.exists /\ last.before.data.items # <<>>
  /\ last.resp.body # <<>>
  /\ last.returned # last.before.data

\* the K-index request found the cache stale and fetched, with status 200, a
\* payload of zero records
EmptyForecast ==
  /\ IsRequest /\ feed = "kpi" /\ last.stale
  /\ last.resp = Response("none", 200, <<>>)

\* C26: a K-index fetch that succeeds with zero records writes nothing: the
\* cache file keeps its content and its modification time, the request
\* returns what the file held, and the cache is still stale
C26_EmptyFetchKeepsCache ==
  EmptyForecast =>
    /\ ~last.raised /\ ~last.wrote
    /\ file.exists = last.before.exists
    /\ file.data = last.before.data
    /\ file.mtime = last.before.mtime
    /\ last.returned = KPI_readcache(last.before)
    /\ kpi_stale(file, KPI_CACHE_TIME, now)

\* such a fetch over a stale cache file that holds records
C26_Witness ==
  /\ EmptyForecast
  /\ last.before.exists /\ last.before.data.items # <<>>
  /\ last.returned = last.before.data

-----------------------------------------------------------------------------
\* Properties of the parse study (ParseSpec), continued

\* the greatest timestamp of the rows
LatestTime(rows) ==
  CHOOSE t \in {strptime(rows[i][1]).value : i \in DOMAIN rows} :
    \A i \in DOMAIN rows : strptime(rows[i][1]).value <= t

\* C25: for a payload whose records all parse, download_alert returns the
\* message of a record with the greatest issue time, wherever it stands in
\* the payload, and no alert for a payload without records
C25_LatestAlert ==
  (qStep = "download_alert" /\ GoodRows(qIn.rows) = qIn.rows) =>
    IF qIn.rows = <<>> THEN qOut = Returned(None)
    ELSE \E i \in DOMAIN qIn.rows :
           /\ strptime(qIn.rows[i][1]).value = LatestTime(qIn.rows)
           /\ qOut = Returned(Str(qIn.rows[i][2]))

====
